---- MODULE Spec2Model ----
(***************************************************************************)
(* Model of the Yarrow PRNG plugin layer, plugin_prng_impl.c: the entropy  *)
(* estimator, seed ingestion, output generation with its single reseed and *)
(* retry, and the init/cleanup lifecycle of the process-wide accumulator   *)
(* y_ctx and its lock yarrow_lock.  Several threads call the plugin's      *)
(* entry points; th[t].pc is a thread's position.  A thread whose pc is    *)
(* one of AccumulatorSites has called the accumulator operation of that    *)
(* line and is inside it until the step that applies the operation's       *)
(* answer, so overlapping accumulator calls of different threads are       *)
(* visible.                                                                *)
(***************************************************************************)
EXTENDS Integers, Sequences, FiniteSets, TLC

\* ------------------------------------------------------------- bounds
Threads == {"t1", "t2"}

\* Calls of entry points started in one behaviour.
MaxCalls == 2

\* ---------------------------------------------------------- constants
\* Source kinds, the cases of entropy_estimate's switch in their order.
KRB5_C_RANDSOURCE_OLDAPI == 0
KRB5_C_RANDSOURCE_OSRAND == 1
KRB5_C_RANDSOURCE_TRUSTEDPARTY == 2
KRB5_C_RANDSOURCE_TIMING == 3
KRB5_C_RANDSOURCE_EXTERNAL_PROTOCOL == 4
KRB5_C_RANDSOURCE_MAX == 5

\* Bits of estimated entropy the slow pool needs; the device buffer of
\* read_entropy_from_device is YARROW_SLOW_THRESH/8 bytes.
YARROW_SLOW_THRESH == 160

YARROW_SLOW_POOL == "YARROW_SLOW_POOL"

\* Results of the accumulator.
YARROW_OK == "YARROW_OK"
YARROW_NOT_SEEDED == "YARROW_NOT_SEEDED"
YARROW_FAIL == "YARROW_FAIL"
YARROW_BAD_SOURCE == "YARROW_BAD_SOURCE"

\* Results of the plugin's entry points.
SUCCESS == "0"
KRB5_CRYPTO_INTERNAL == "KRB5_CRYPTO_INTERNAL"
ENOMEM == "ENOMEM"
NONE == "none"

\* Inputs the callers pass.  A kind of KRB5_C_RANDSOURCE_MAX is outside the
\* enumeration.
SourceKinds == 0 .. (KRB5_C_RANDSOURCE_MAX - 1)
SeedKinds == 0 .. KRB5_C_RANDSOURCE_MAX
\* Samples a caller seeds with: the bytes (named, not spelled out) and their
\* number.  The longer one is as long as the device buffer.
Samples == { [data |-> "empty", length |-> 0],
             [data |-> "bytes", length |-> YARROW_SLOW_THRESH \div 8] }
OutLens == {1, 2}

\* The candidate devices of _plugin_prng_os_seed.
DEV_RANDOM == "/dev/random"
DEV_URANDOM == "/dev/urandom"

\* unsigned char buf[YARROW_SLOW_THRESH/8]
BufSize == YARROW_SLOW_THRESH \div 8

\* What fstat can tell about an opened path: the call fails, the path is a
\* regular file, or it is a device.
StatAnswers == {"fail", "regular", "device"}

\* The size of a short read: read() hands back this many bytes, when that
\* many are still wanted, or all that is wanted.
PartialRead == 8

\* What read(fd, bp, left) can return: an error, end of file, or a count of
\* at least one and at most left bytes.
ReadAnswers(left) == {-1, 0, left} \cup {c \in {PartialRead} : c < left}

Min(a, b) == IF a < b THEN a ELSE b

\* ------------------------------------------------- the accumulator
\* Yarrow_CTX as this layer sees it: whether it is initialized, whether it
\* is seeded, the estimated entropy waiting in the slow pool (counted up to
\* the threshold) and the number of registered sources.
ZeroCtx == [init |-> FALSE, seeded |-> FALSE, slow |-> 0, num_sources |-> 0]

\* Each operation yields the set of answers the accumulator can give: its
\* result, the context afterwards, and what it hands back.  Every operation
\* can fail for reasons of its own (YARROW_FAIL) and then changes nothing.
yarrow_init(y) ==
    { [r |-> YARROW_OK,
       y |-> [init |-> TRUE, seeded |-> TRUE, slow |-> 0, num_sources |-> 0]],
      [r |-> YARROW_NOT_SEEDED,
       y |-> [init |-> TRUE, seeded |-> FALSE, slow |-> 0, num_sources |-> 0]],
      [r |-> YARROW_FAIL, y |-> y] }

yarrow_new_source(y) ==
    { [r |-> YARROW_OK, id |-> y.num_sources,
       y |-> [y EXCEPT !.num_sources = @ + 1]],
      [r |-> YARROW_FAIL, id |-> 0, y |-> y] }

yarrow_input(y, source_id, entropy_bits) ==
    { IF source_id < y.num_sources
      THEN [r |-> YARROW_OK,
            y |-> [y EXCEPT !.slow = Min(@ + entropy_bits, YARROW_SLOW_THRESH)]]
      ELSE [r |-> YARROW_BAD_SOURCE, y |-> y],
      [r |-> YARROW_FAIL, y |-> y] }

yarrow_output(y, size) ==
    { IF y.seeded
      THEN [r |-> YARROW_OK, filled |-> size, y |-> y]
      ELSE [r |-> YARROW_NOT_SEEDED, filled |-> 0, y |-> y],
      [r |-> YARROW_FAIL, filled |-> 0, y |-> y] }

yarrow_reseed(y, pool) ==
    { IF y.slow >= YARROW_SLOW_THRESH
      THEN [r |-> YARROW_OK, y |-> [y EXCEPT !.seeded = TRUE, !.slow = 0]]
      ELSE [r |-> YARROW_NOT_SEEDED, y |-> y],
      [r |-> YARROW_FAIL, y |-> y] }

yarrow_final(y) == ZeroCtx

\* ------------------------------------------------------------ state
VARIABLES
    th,           \* per thread: position, locals and the record of its call
    y_ctx,        \* static Yarrow_CTX y_ctx
    yarrow_lock,  \* k5_mutex_t yarrow_lock: "partial", "ready", "destroyed"
    lock_owner,   \* the thread holding yarrow_lock, NONE when it is free
    once,         \* krb5int_crypto_init's run-once record
    aborted,      \* NONE, or which abort()/assert ended the process
    finalized,    \* _plugin_prng_cleanup has been called
    calls,        \* entry-point calls started so far
    inits,        \* accumulator initializations accepted so far
    registered    \* per source kind, registrations accepted so far

vars == <<th, y_ctx, yarrow_lock, lock_owner, once, aborted, finalized,
          calls, inits, registered>>

\* A thread between calls.  log is the sequence of requests the current (or
\* last) call made, with their answers.
IdleThread ==
    [pc |-> "idle", top |-> NONE, viaOnce |-> FALSE,
     yerr |-> NONE, i |-> 0, randsource |-> 0, data |-> "empty", length |-> 0,
     est |-> 0, filled |-> 0, ret |-> NONE, log |-> <<>>,
     strong |-> FALSE, success_ptr |-> FALSE, oursuccess |-> -1,
     todo |-> <<>>, fd |-> -1, left |-> 0, y0 |-> ZeroCtx]

\* The places where a thread is inside an accumulator operation.
AccumulatorSites ==
    {"init_yarrow", "init_source", "seed_input", "rand_output",
     "rand_reseed", "rand_retry", "cleanup_final"}

Init ==
    /\ th = [t \in Threads |-> IdleThread]
    /\ y_ctx = ZeroCtx
    /\ yarrow_lock = "partial"
    /\ lock_owner = NONE
    /\ once = [state |-> "none", err |-> NONE]
    /\ aborted = NONE
    /\ finalized = FALSE
    /\ calls = 0
    /\ inits = 0
    /\ registered = [k \in SourceKinds |-> 0]

Running == aborted = NONE

\* A thread may start a call: callers make no call once cleanup has begun.
MayCall(t) ==
    /\ Running
    /\ th[t].pc = "idle"
    /\ ~finalized
    /\ calls < MaxCalls

StartCall(name, label) ==
    [IdleThread EXCEPT !.pc = label, !.top = name]

Logged(s, e) == [s EXCEPT !.log = Append(@, e)]

\* ------------------------------------------------ entropy_estimate
\* The value that stands for "abort() was called, nothing is returned".
ABORTED == -1

entropy_estimate_TrustedAsOs(randsource, length) ==
    CASE randsource = KRB5_C_RANDSOURCE_OLDAPI -> 4 * length
      [] randsource = KRB5_C_RANDSOURCE_OSRAND -> 8 * length
      [] randsource = KRB5_C_RANDSOURCE_TRUSTEDPARTY -> 8 * length
      [] randsource = KRB5_C_RANDSOURCE_TIMING -> 2
      [] randsource = KRB5_C_RANDSOURCE_EXTERNAL_PROTOCOL -> 0
      [] OTHER -> ABORTED

entropy_estimate_DefaultZero(randsource, length) ==
    CASE randsource = KRB5_C_RANDSOURCE_OLDAPI -> 4 * length
      [] randsource = KRB5_C_RANDSOURCE_OSRAND -> 8 * length
      [] randsource = KRB5_C_RANDSOURCE_TRUSTEDPARTY -> 4 * length
      [] randsource = KRB5_C_RANDSOURCE_TIMING -> 2
      [] OTHER -> 0

\* The result is a size_t and length comes from krb5_data.length, an unsigned
\* int: with a size_t of 64 bits no product below wraps.
entropy_estimate(randsource, length) ==
    CASE randsource = KRB5_C_RANDSOURCE_OLDAPI -> 4 * length
      [] randsource = KRB5_C_RANDSOURCE_OSRAND -> 8 * length
      [] randsource = KRB5_C_RANDSOURCE_TRUSTEDPARTY -> 4 * length
      [] randsource = KRB5_C_RANDSOURCE_TIMING -> 2
      [] randsource = KRB5_C_RANDSOURCE_EXTERNAL_PROTOCOL -> 0
      [] OTHER -> ABORTED

\* ------------------------------------------------ read_entropy_from_device
DeviceOrder_UrandomFirst(strong) ==
    IF strong THEN <<DEV_URANDOM, DEV_RANDOM>> ELSE <<DEV_URANDOM>>

\* The devices _plugin_prng_os_seed reads, in its order: /dev/random when
\* strong is set, then /dev/urandom in every case.
DeviceOrder(strong) ==
    IF strong THEN <<DEV_RANDOM, DEV_URANDOM>> ELSE <<DEV_URANDOM>>

StatRejects_OnlyFailure(st) == st = "fail"

\* if (fstat(fd, &sb) == -1 || S_ISREG(sb.st_mode))
StatRejects(st) == st = "fail" \/ st = "regular"

ReadFailed_OnlyError(count) == count < 0

\* if (count <= 0)
ReadFailed(count) == count <= 0

AddEntropyResult_Ignored(r) == TRUE

\* return (krb5_c_random_add_entropy(...) == 0);
AddEntropyResult(r) == r = SUCCESS

CloseFd_Leaked(s) == s

\* close(fd);
CloseFd(s) ==
    Logged([s EXCEPT !.fd = -1], [op |-> "close", dev |-> Head(s.todo)])

\* read_entropy_from_device returns b for the device at the head of todo;
\* _plugin_prng_os_seed records it, goes on to the next device, and returns 0
\* after the last.
DeviceReturn(s, b) ==
    LET s1 == Logged([s EXCEPT !.oursuccess = IF b THEN 1 ELSE @,
                               !.todo = Tail(@)],
                     [op |-> "returned", dev |-> Head(s.todo), r |-> b])
    IN IF s1.todo = <<>>
       THEN [s1 EXCEPT !.pc = "idle", !.ret = SUCCESS]
       ELSE [s1 EXCEPT !.pc = "dev_open"]

\* ------------------------------------------------ returning to a caller
\* _plugin_prng_seed returns r: to the plugin's caller, or, through
\* krb5_c_random_add_entropy, to read_entropy_from_device.
SeedReturn(s, r) ==
    IF s.top = "os_seed"
    THEN DeviceReturn(s, AddEntropyResult(r))
    ELSE [s EXCEPT !.pc = "idle", !.ret = r]

\* krb5int_crypto_init has returned r inside _plugin_prng_seed (lines 162-164).
SeedAfterCryptoInit(s, r) ==
    LET s1 == Logged(s, [op |-> "crypto_init", r |-> r])
    IN IF r # SUCCESS THEN SeedReturn(s1, r)
                      ELSE [s1 EXCEPT !.pc = "seed_estimate"]

\* _plugin_prng_init returns r: to the plugin's caller, or to
\* krb5int_crypto_init when that is what ran it.
InitReturn(s, r) ==
    IF s.viaOnce
    THEN SeedAfterCryptoInit([s EXCEPT !.viaOnce = FALSE], r)
    ELSE [s EXCEPT !.pc = "idle", !.ret = r]

OnceAfterInit(s, r) ==
    IF s.viaOnce THEN [state |-> "done", err |-> r] ELSE once

\* ------------------------------------------------ _plugin_prng_init
CallInit(t) ==
    /\ MayCall(t)
    /\ th' = [th EXCEPT ![t] = StartCall("init", "init_lock")]
    /\ calls' = calls + 1
    /\ UNCHANGED <<y_ctx, yarrow_lock, lock_owner, once, aborted, finalized,
                   inits, registered>>

\* yerr = k5_mutex_finish_init(&yarrow_lock); if (yerr) return yerr;
InitFinishLock(t) ==
    /\ Running
    /\ th[t].pc = "init_lock"
    /\ \E yerr \in {SUCCESS, ENOMEM} :
         LET s == Logged([th[t] EXCEPT !.yerr = yerr],
                         [op |-> "finish_init", r |-> yerr])
         IN IF yerr # SUCCESS
            THEN /\ th' = [th EXCEPT ![t] = InitReturn(s, yerr)]
                 /\ once' = OnceAfterInit(s, yerr)
                 /\ UNCHANGED yarrow_lock
            ELSE /\ th' = [th EXCEPT ![t] = [s EXCEPT !.pc = "init_yarrow"]]
                 /\ yarrow_lock' = "ready"
                 /\ UNCHANGED once
    /\ UNCHANGED <<y_ctx, lock_owner, aborted, finalized, calls, inits,
                   registered>>

InitAccepts_OnlyOk(yerr) == yerr = YARROW_OK

\* if (yerr != YARROW_OK && yerr != YARROW_NOT_SEEDED) return KRB5_CRYPTO_INTERNAL;
InitAccepts(yerr) == yerr = YARROW_OK \/ yerr = YARROW_NOT_SEEDED

\* for (i=0; i < KRB5_C_RANDSOURCE_MAX; i++ )
LoopContinues(i) == i < KRB5_C_RANDSOURCE_MAX

SourceIdAsserted_Unchecked(source_id, i) == TRUE

\* assert (source_id == i);
SourceIdAsserted(source_id, i) == source_id = i

InitAccumulator_OnlyFirst(y) ==
    IF y.init THEN { [r |-> YARROW_OK, y |-> y] } ELSE yarrow_init(y)

\* krb5int_yarrow_init (&y_ctx, NULL), called on every run of
\* _plugin_prng_init whatever the state of y_ctx.
InitAccumulator(y) == yarrow_init(y)

\* yerr = krb5int_yarrow_init (&y_ctx, NULL); and the test of its result.
InitYarrowInit(t) ==
    /\ Running
    /\ th[t].pc = "init_yarrow"
    /\ \E a \in InitAccumulator(y_ctx) :
         LET s == Logged([th[t] EXCEPT !.yerr = a.r, !.i = 0],
                         [op |-> "init", r |-> a.r])
         IN /\ y_ctx' = a.y
            /\ IF ~InitAccepts(a.r)
               THEN /\ th' = [th EXCEPT ![t] = InitReturn(s, KRB5_CRYPTO_INTERNAL)]
                    /\ once' = OnceAfterInit(s, KRB5_CRYPTO_INTERNAL)
                    /\ UNCHANGED inits
               ELSE /\ inits' = inits + 1
                    /\ IF LoopContinues(0)
                       THEN /\ th' = [th EXCEPT ![t] = [s EXCEPT !.pc = "init_source"]]
                            /\ UNCHANGED once
                       ELSE /\ th' = [th EXCEPT ![t] = InitReturn(s, SUCCESS)]
                            /\ once' = OnceAfterInit(s, SUCCESS)
    /\ UNCHANGED <<yarrow_lock, lock_owner, aborted, finalized, calls,
                   registered>>

\* One turn of the registration loop: krb5int_yarrow_new_source, the test of
\* its result, the assertion, i++ and the loop test.
InitNewSource(t) ==
    /\ Running
    /\ th[t].pc = "init_source"
    /\ \E a \in yarrow_new_source(y_ctx) :
         LET s == Logged(th[t], [op |-> "new_source", r |-> a.r, id |-> a.id,
                                 i |-> th[t].i])
         IN /\ y_ctx' = a.y
            /\ IF a.r # YARROW_OK
               THEN /\ th' = [th EXCEPT ![t] = InitReturn(s, KRB5_CRYPTO_INTERNAL)]
                    /\ once' = OnceAfterInit(s, KRB5_CRYPTO_INTERNAL)
                    /\ UNCHANGED <<aborted, registered>>
               ELSE /\ registered' = [registered EXCEPT ![th[t].i] = @ + 1]
                    /\ IF ~SourceIdAsserted(a.id, th[t].i)
                       THEN /\ aborted' = "assert"
                            /\ th' = [th EXCEPT ![t] = s]
                            /\ UNCHANGED once
                       ELSE /\ UNCHANGED aborted
                            /\ IF LoopContinues(th[t].i + 1)
                               THEN /\ th' = [th EXCEPT ![t] = [s EXCEPT !.i = @ + 1]]
                                    /\ UNCHANGED once
                               ELSE /\ th' = [th EXCEPT ![t] =
                                                InitReturn([s EXCEPT !.i = @ + 1], SUCCESS)]
                                    /\ once' = OnceAfterInit(s, SUCCESS)
    /\ UNCHANGED <<yarrow_lock, lock_owner, finalized, calls, inits>>

\* ------------------------------------------------ krb5int_crypto_init
\* The library's run-once initialization, which runs _plugin_prng_init the
\* first time and gives every later caller the first run's result.  A caller
\* that arrives while the first run is under way waits for it.
SeedCryptoInit(t) ==
    /\ Running
    /\ th[t].pc = "seed_crypto_init"
    /\ once.state # "running"
    /\ IF once.state = "none"
       THEN /\ once' = [state |-> "running", err |-> NONE]
            /\ th' = [th EXCEPT ![t] = [@ EXCEPT !.pc = "init_lock",
                                                 !.viaOnce = TRUE]]
       ELSE /\ th' = [th EXCEPT ![t] =
                        SeedAfterCryptoInit([@ EXCEPT !.yerr = once.err], once.err)]
            /\ UNCHANGED once
    /\ UNCHANGED <<y_ctx, yarrow_lock, lock_owner, aborted, finalized, calls,
                   inits, registered>>

\* ------------------------------------------------ _plugin_prng_seed
CallSeed(t) ==
    /\ MayCall(t)
    /\ \E k \in SeedKinds, d \in Samples :
         th' = [th EXCEPT ![t] =
                  [StartCall("seed", "seed_crypto_init")
                     EXCEPT !.randsource = k, !.data = d.data,
                            !.length = d.length]]
    /\ calls' = calls + 1
    /\ UNCHANGED <<y_ctx, yarrow_lock, lock_owner, once, aborted, finalized,
                   inits, registered>>

SeedResult_Unchecked(yerr) == SUCCESS

\* if (yerr != YARROW_OK) return KRB5_CRYPTO_INTERNAL; return 0;
SeedResult(yerr) == IF yerr # YARROW_OK THEN KRB5_CRYPTO_INTERNAL ELSE SUCCESS

\* The arguments of krb5int_yarrow_input are evaluated, entropy_estimate
\* among them, and krb5int_yarrow_input is called.
SeedInputCall(t) ==
    /\ Running
    /\ th[t].pc = "seed_estimate"
    /\ LET e == entropy_estimate(th[t].randsource, th[t].length)
       IN IF e = ABORTED
          THEN /\ aborted' = "estimate"
               /\ UNCHANGED th
          ELSE /\ th' = [th EXCEPT ![t] = [@ EXCEPT !.pc = "seed_input", !.est = e]]
               /\ UNCHANGED aborted
    /\ UNCHANGED <<y_ctx, yarrow_lock, lock_owner, once, finalized, calls,
                   inits, registered>>

\* krb5int_yarrow_input answers and _plugin_prng_seed returns.
SeedInput(t) ==
    /\ Running
    /\ th[t].pc = "seed_input"
    /\ \E a \in yarrow_input(y_ctx, th[t].randsource, th[t].est) :
         LET s == Logged([th[t] EXCEPT !.yerr = a.r],
                         [op |-> "input", r |-> a.r,
                          source_id |-> th[t].randsource, data |-> th[t].data,
                          size |-> th[t].length, entropy_bits |-> th[t].est])
         IN /\ y_ctx' = a.y
            /\ th' = [th EXCEPT ![t] = SeedReturn(s, SeedResult(a.r))]
    /\ UNCHANGED <<yarrow_lock, lock_owner, once, aborted, finalized, calls,
                   inits, registered>>

\* ------------------------------------------------ _plugin_prng_rand
CallRand(t) ==
    /\ MayCall(t)
    /\ \E n \in OutLens :
         th' = [th EXCEPT ![t] =
                  [StartCall("rand", "rand_output")
                     EXCEPT !.length = n, !.y0 = y_ctx]]
    /\ calls' = calls + 1
    /\ UNCHANGED <<y_ctx, yarrow_lock, lock_owner, once, aborted, finalized,
                   inits, registered>>

NeedReseed_OnAnyFailure(yerr) == yerr # YARROW_OK

NeedReseed_Never(yerr) == FALSE

\* if (yerr == YARROW_NOT_SEEDED)
NeedReseed(yerr) == yerr = YARROW_NOT_SEEDED

RetryOutput_Always(yerr) == TRUE

\* if (yerr == YARROW_OK) yerr = krb5int_yarrow_output(...)
RetryOutput(yerr) == yerr = YARROW_OK

RandResult_ErrorOnlyOnFail(yerr) ==
    IF yerr = YARROW_FAIL THEN KRB5_CRYPTO_INTERNAL ELSE SUCCESS

\* if (yerr != YARROW_OK) return KRB5_CRYPTO_INTERNAL; return 0;
RandResult(yerr) == IF yerr # YARROW_OK THEN KRB5_CRYPTO_INTERNAL ELSE SUCCESS

RandReturn(s) == [s EXCEPT !.pc = "idle", !.ret = RandResult(s.yerr)]

\* yerr = krb5int_yarrow_output(&y_ctx, data->data, data->length);
RandOutput(t) ==
    /\ Running
    /\ th[t].pc = "rand_output"
    /\ \E a \in yarrow_output(y_ctx, th[t].length) :
         LET s == Logged([th[t] EXCEPT !.yerr = a.r, !.filled = a.filled],
                         [op |-> "output", r |-> a.r, size |-> th[t].length])
         IN /\ y_ctx' = a.y
            /\ th' = [th EXCEPT ![t] =
                        IF NeedReseed(a.r) THEN [s EXCEPT !.pc = "rand_reseed"]
                                           ELSE RandReturn(s)]
    /\ UNCHANGED <<yarrow_lock, lock_owner, once, aborted, finalized, calls,
                   inits, registered>>

\* yerr = krb5int_yarrow_reseed(&y_ctx, YARROW_SLOW_POOL);
RandReseed(t) ==
    /\ Running
    /\ th[t].pc = "rand_reseed"
    /\ \E a \in yarrow_reseed(y_ctx, YARROW_SLOW_POOL) :
         LET s == Logged([th[t] EXCEPT !.yerr = a.r],
                         [op |-> "reseed", r |-> a.r, pool |-> YARROW_SLOW_POOL])
         IN /\ y_ctx' = a.y
            /\ th' = [th EXCEPT ![t] =
                        IF RetryOutput(a.r) THEN [s EXCEPT !.pc = "rand_retry"]
                                            ELSE RandReturn(s)]
    /\ UNCHANGED <<yarrow_lock, lock_owner, once, aborted, finalized, calls,
                   inits, registered>>

\* The second krb5int_yarrow_output, after a reseed that reported ok.
RandRetry(t) ==
    /\ Running
    /\ th[t].pc = "rand_retry"
    /\ \E a \in yarrow_output(y_ctx, th[t].length) :
         LET s == Logged([th[t] EXCEPT !.yerr = a.r, !.filled = a.filled],
                         [op |-> "output", r |-> a.r, size |-> th[t].length])
         IN /\ y_ctx' = a.y
            /\ th' = [th EXCEPT ![t] = RandReturn(s)]
    /\ UNCHANGED <<yarrow_lock, lock_owner, once, aborted, finalized, calls,
                   inits, registered>>

\* ------------------------------------------------ _plugin_prng_cleanup
\* Callers call cleanup when no other thread is inside a call.
CallCleanup(t) ==
    /\ MayCall(t)
    /\ \A u \in Threads : th[u].pc = "idle"
    /\ th' = [th EXCEPT ![t] = StartCall("cleanup", "cleanup_final")]
    /\ finalized' = TRUE
    /\ calls' = calls + 1
    /\ UNCHANGED <<y_ctx, yarrow_lock, lock_owner, once, aborted, inits,
                   registered>>

CleanupFinal_SkipsAccumulator(t) ==
    /\ Running
    /\ th[t].pc = "cleanup_final"
    /\ th' = [th EXCEPT ![t].pc = "cleanup_destroy"]
    /\ UNCHANGED <<y_ctx, yarrow_lock, lock_owner, once, aborted, finalized,
                   calls, inits, registered>>

\* krb5int_yarrow_final (&y_ctx);
CleanupFinal(t) ==
    /\ Running
    /\ th[t].pc = "cleanup_final"
    /\ y_ctx' = yarrow_final(y_ctx)
    /\ th' = [th EXCEPT ![t] =
                [Logged(@, [op |-> "final", r |-> YARROW_OK])
                   EXCEPT !.pc = "cleanup_destroy"]]
    /\ UNCHANGED <<yarrow_lock, lock_owner, once, aborted, finalized, calls,
                   inits, registered>>

\* k5_mutex_destroy(&yarrow_lock);
CleanupDestroy(t) ==
    /\ Running
    /\ th[t].pc = "cleanup_destroy"
    /\ yarrow_lock' = "destroyed"
    /\ th' = [th EXCEPT ![t] =
                [Logged(@, [op |-> "destroy", r |-> SUCCESS])
                   EXCEPT !.pc = "idle", !.ret = "void"]]
    /\ UNCHANGED <<y_ctx, lock_owner, once, aborted, finalized, calls, inits,
                   registered>>

\* ------------------------------------------------ _plugin_prng_os_seed
\* int *oursuccess = success ? success : &unused; *oursuccess = 0;
CallOsSeed(t) ==
    /\ MayCall(t)
    /\ \E strong \in BOOLEAN, success_ptr \in BOOLEAN :
         th' = [th EXCEPT ![t] =
                  [StartCall("os_seed", "dev_open")
                     EXCEPT !.strong = strong, !.success_ptr = success_ptr,
                            !.oursuccess = 0, !.todo = DeviceOrder(strong)]]
    /\ calls' = calls + 1
    /\ UNCHANGED <<y_ctx, yarrow_lock, lock_owner, once, aborted, finalized,
                   inits, registered>>

\* fd = open (device, O_RDONLY); if (fd == -1) return 0; set_cloexec_fd(fd);
DevOpen(t) ==
    /\ Running
    /\ th[t].pc = "dev_open"
    /\ \E fd \in {-1, 3} :
         LET s == Logged([th[t] EXCEPT !.fd = fd],
                         [op |-> "open", dev |-> Head(th[t].todo), r |-> fd])
         IN th' = [th EXCEPT ![t] =
                     IF fd = -1 THEN DeviceReturn(s, FALSE)
                                ELSE [s EXCEPT !.pc = "dev_fstat"]]
    /\ UNCHANGED <<y_ctx, yarrow_lock, lock_owner, once, aborted, finalized,
                   calls, inits, registered>>

\* if (fstat(fd, &sb) == -1 || S_ISREG(sb.st_mode)) { close(fd); return 0; }
\* and the start of the read loop: bp = buf, left = sizeof(buf).
DevStat(t) ==
    /\ Running
    /\ th[t].pc = "dev_fstat"
    /\ \E st \in StatAnswers :
         LET s == Logged(th[t], [op |-> "fstat", dev |-> Head(th[t].todo),
                                 r |-> st])
         IN th' = [th EXCEPT ![t] =
                     IF StatRejects(st)
                     THEN DeviceReturn(CloseFd(s), FALSE)
                     ELSE [s EXCEPT !.pc = "dev_read", !.left = BufSize]]
    /\ UNCHANGED <<y_ctx, yarrow_lock, lock_owner, once, aborted, finalized,
                   calls, inits, registered>>

\* One turn of the read loop: count = read(fd, bp, left), the test of count,
\* left -= count and the loop test; after the last turn close(fd) and the
\* call krb5_c_random_add_entropy(context, KRB5_C_RANDSOURCE_OSRAND, &data)
\* with data.length = sizeof (buf), which runs _plugin_prng_seed.
DevRead(t) ==
    /\ Running
    /\ th[t].pc = "dev_read"
    /\ \E count \in ReadAnswers(th[t].left) :
         LET s == Logged(th[t], [op |-> "read", dev |-> Head(th[t].todo),
                                 want |-> th[t].left, r |-> count])
             more == [s EXCEPT !.left = @ - count]
         IN th' = [th EXCEPT ![t] =
                     IF ReadFailed(count)
                     THEN DeviceReturn(CloseFd(s), FALSE)
                     ELSE IF more.left > 0
                     THEN more
                     ELSE [Logged(CloseFd(more),
                                  [op |-> "add_entropy",
                                   dev |-> Head(th[t].todo),
                                   randsource |-> KRB5_C_RANDSOURCE_OSRAND,
                                   length |-> BufSize])
                             EXCEPT !.pc = "seed_crypto_init",
                                    !.randsource = KRB5_C_RANDSOURCE_OSRAND,
                                    !.data = Head(th[t].todo),
                                    !.length = BufSize]]
    /\ UNCHANGED <<y_ctx, yarrow_lock, lock_owner, once, aborted, finalized,
                   calls, inits, registered>>

Win32Success_Set == 0 + 1

\* *success = 0; in the _WIN32 build.
Win32Success == 0

\* The whole _plugin_prng_os_seed of the _WIN32 build:
\* if (success) *success = 0; return 0;
CallOsSeedWin32(t) ==
    /\ MayCall(t)
    /\ \E strong \in BOOLEAN, success_ptr \in BOOLEAN :
         th' = [th EXCEPT ![t] =
                  [StartCall("os_seed", "idle")
                     EXCEPT !.strong = strong, !.success_ptr = success_ptr,
                            !.oursuccess = IF success_ptr THEN Win32Success
                                                          ELSE @,
                            !.ret = SUCCESS]]
    /\ calls' = calls + 1
    /\ UNCHANGED <<y_ctx, yarrow_lock, lock_owner, once, aborted, finalized,
                   inits, registered>>

\* ------------------------------------------------ the specification
Step(t) ==
    \/ CallInit(t)
    \/ InitFinishLock(t)
    \/ InitYarrowInit(t)
    \/ InitNewSource(t)
    \/ CallSeed(t)
    \/ SeedCryptoInit(t)
    \/ SeedInputCall(t)
    \/ SeedInput(t)
    \/ CallRand(t)
    \/ RandOutput(t)
    \/ RandReseed(t)
    \/ RandRetry(t)
    \/ CallCleanup(t)
    \/ CleanupFinal(t)
    \/ CleanupDestroy(t)

Next == \E t \in Threads : Step(t)

Spec == Init /\ [][Next]_vars

\* One thread alone making the calls, one call after the other.
NextSeq == Step("t1")

SpecSeq == Init /\ [][NextSeq]_vars

\* The build with devices (not _WIN32): the entry points with
\* _plugin_prng_os_seed among them.
StepOs(t) ==
    \/ Step(t)
    \/ CallOsSeed(t)
    \/ DevOpen(t)
    \/ DevStat(t)
    \/ DevRead(t)

\* One thread makes the calls, as in SpecSeq.
NextOs == StepOs("t1")

SpecOs == Init /\ [][NextOs]_vars

\* The _WIN32 build, whose _plugin_prng_os_seed reads no device.
NextWin32 == \E t \in Threads : Step(t) \/ CallOsSeedWin32(t)

SpecWin32 == Init /\ [][NextWin32]_vars

\* ------------------------------------------------ the estimator alone
\* Lengths the estimator is applied to: every length up to MaxEstLen, and
\* 1024.
MaxEstLen == 20

EstLens == (0 .. MaxEstLen) \cup {1024}

\* A thread about to call entropy_estimate(randsource, length).
InitEst ==
    /\ \E k \in SeedKinds, n \in EstLens :
         th = [t \in Threads |->
                 IF t = "t1"
                 THEN [StartCall("estimate", "estimate")
                         EXCEPT !.randsource = k, !.length = n]
                 ELSE IdleThread]
    /\ y_ctx = ZeroCtx
    /\ yarrow_lock = "partial"
    /\ lock_owner = NONE
    /\ once = [state |-> "none", err |-> NONE]
    /\ aborted = NONE
    /\ finalized = FALSE
    /\ calls = 0
    /\ inits = 0
    /\ registered = [k \in SourceKinds |-> 0]

\* The call: a value is returned, or abort() ends the process.
Estimate(t) ==
    /\ Running
    /\ th[t].pc = "estimate"
    /\ LET e == entropy_estimate(th[t].randsource, th[t].length)
       IN IF e = ABORTED
          THEN /\ aborted' = "estimate"
               /\ UNCHANGED th
          ELSE /\ th' = [th EXCEPT ![t] = [@ EXCEPT !.pc = "estimated",
                                                    !.est = e]]
               /\ UNCHANGED aborted
    /\ UNCHANGED <<y_ctx, yarrow_lock, lock_owner, once, finalized, calls,
                   inits, registered>>

NextEst == Estimate("t1")

SpecEst == InitEst /\ [][NextEst]_vars

\* ------------------------------------------------ reading a call's record
OfOp(log, op) == SelectSeq(log, LAMBDA e : e.op = op)

InAccumulator(t) == th[t].pc \in AccumulatorSites

\* The thread's call has returned to the plugin's caller.
Returned(t, name) ==
    th[t].top = name /\ th[t].pc = "idle" /\ th[t].ret # NONE

\* Requests made so far in the call, the one under way included.
OutputRequests(t) ==
    Len(OfOp(th[t].log, "output"))
      + (IF th[t].pc \in {"rand_output", "rand_retry"} THEN 1 ELSE 0)

ReseedRequests(t) ==
    Len(OfOp(th[t].log, "reseed"))
      + (IF th[t].pc = "rand_reseed" THEN 1 ELSE 0)

\* ------------------------------------------------ C1
\* C1: in _plugin_prng_rand, once the first output request has reported "not
\* seeded", exactly one reseed (of the slow pool) is requested; a second
\* output request is made if and only if that reseed reported ok; a call
\* makes at most two output requests and at most one reseed request, in the
\* order output, reseed, output, and a call under way can always take its
\* next step, whatever the accumulator answered.
C1_OneReseedOneRetry ==
    \A t \in Threads :
        th[t].top = "rand" =>
            LET log == th[t].log
                reseeds == OfOp(log, "reseed")
            IN /\ OutputRequests(t) <= 2
               /\ ReseedRequests(t) <= 1
               /\ Len(log) <= 3
               /\ \A k \in 1 .. Len(log) :
                    log[k].op = (IF k = 2 THEN "reseed" ELSE "output")
               /\ (Len(log) >= 1 /\ log[1].r = YARROW_NOT_SEEDED)
                    => ReseedRequests(t) = 1
               /\ (Len(log) >= 1 /\ log[1].r # YARROW_NOT_SEEDED)
                    => ReseedRequests(t) = 0
               /\ \A k \in 1 .. Len(reseeds) :
                    /\ reseeds[k].pool = YARROW_SLOW_POOL
                    /\ (OutputRequests(t) = 2) <=> (reseeds[k].r = YARROW_OK)
               /\ (reseeds = <<>>) => OutputRequests(t) = 1
               /\ (th[t].pc # "idle" /\ Running)
                    => ENABLED (RandOutput(t) \/ RandReseed(t) \/ RandRetry(t))

\* A call that answered "not seeded", reseeded with ok and retried.
C1_Witness ==
    \E t \in Threads :
        /\ Returned(t, "rand")
        /\ Len(th[t].log) = 3
        /\ th[t].log[1].r = YARROW_NOT_SEEDED
        /\ th[t].log[2].r = YARROW_OK

\* ------------------------------------------------ C2
\* C2: when the first output request of _plugin_prng_rand fails with a result
\* other than "not seeded", the call has returned KRB5_CRYPTO_INTERNAL with
\* that request as its only request: no reseed, no second output.
C2_OtherFailureNoRetry ==
    \A t \in Threads :
        (/\ th[t].top = "rand"
         /\ Len(th[t].log) >= 1
         /\ th[t].log[1].r \notin {YARROW_OK, YARROW_NOT_SEEDED})
        => /\ th[t].pc = "idle"
           /\ th[t].ret = KRB5_CRYPTO_INTERNAL
           /\ Len(th[t].log) = 1
           /\ ReseedRequests(t) = 0
           /\ OutputRequests(t) = 1

C2_Witness ==
    \E t \in Threads :
        /\ Returned(t, "rand")
        /\ th[t].log[1].op = "output"
        /\ th[t].log[1].r = YARROW_FAIL

\* ------------------------------------------------ C3
\* C3: _plugin_prng_rand returns success exactly when the last output request
\* it made reported ok, and then the buffer holds the requested number of
\* bytes; in every other case it returns KRB5_CRYPTO_INTERNAL.
C3_SuccessIffLastOutputOk ==
    \A t \in Threads :
        Returned(t, "rand") =>
            LET outs == OfOp(th[t].log, "output")
                last == outs[Len(outs)]
            IN /\ Len(outs) >= 1
               /\ th[t].ret \in {SUCCESS, KRB5_CRYPTO_INTERNAL}
               /\ (th[t].ret = SUCCESS) <=> (last.r = YARROW_OK)
               /\ (th[t].ret = SUCCESS)
                    => /\ th[t].log[Len(th[t].log)] = last
                       /\ th[t].filled = th[t].length
               /\ (\E k \in 1 .. Len(th[t].log) :
                       /\ th[t].log[k].r # YARROW_OK
                       /\ \A j \in (k + 1) .. Len(th[t].log) :
                            th[t].log[j].op # "output")
                    => th[t].ret = KRB5_CRYPTO_INTERNAL

\* A call whose retry failed after a reseed that reported ok.
C3_Witness ==
    \E t \in Threads :
        /\ Returned(t, "rand")
        /\ Len(th[t].log) = 3
        /\ th[t].log[3].r = YARROW_FAIL
        /\ th[t].ret = KRB5_CRYPTO_INTERNAL

\* ------------------------------------------------ C4
\* C4: yarrow_lock is held by the calling thread for the whole of every
\* accumulator operation (initialization's registration, input, output with
\* its reseed), so that two threads are never inside accumulator operations
\* at the same time.
C4_LockHeldInAccumulator ==
    /\ \A t \in Threads : InAccumulator(t) => lock_owner = t
    /\ Cardinality({t \in Threads : InAccumulator(t)}) <= 1

\* ------------------------------------------------ C5
\* C5: whenever a thread is inside an accumulator operation, yarrow_lock has
\* completed its initialization (k5_mutex_finish_init has succeeded).
C5_LockReadyBeforeAccumulator ==
    \A t \in Threads : InAccumulator(t) => yarrow_lock = "ready"

\* ------------------------------------------------ C6
\* C6: however the threads race to initialize, directly or through
\* _plugin_prng_seed, the accumulator is initialized at most once and each
\* source kind is registered at most once.
C6_InitializedAtMostOnce ==
    /\ inits <= 1
    /\ \A k \in SourceKinds : registered[k] <= 1

\* ------------------------------------------------ C7
\* The registrations a call has made, in the order it made them.
Registrations(t) == OfOp(th[t].log, "new_source")

\* The run of _plugin_prng_init this thread made has returned 0, to the
\* plugin's caller or to krb5int_crypto_init.
InitSucceeded(t) ==
    \/ Returned(t, "init") /\ th[t].ret = SUCCESS
    \/ \E k \in 2 .. Len(th[t].log) :
         th[t].log[k].op = "crypto_init" /\ th[t].log[k].r = SUCCESS

\* C7: a run of _plugin_prng_init registers the source kinds in enumeration
\* order, each at most once; when it has returned 0 it has registered every
\* kind exactly once and the accumulator gave each kind its enumeration index
\* as identifier; an identifier that differs from the index ends the process
\* at that registration, and the run never returns.
C7_RegistrationMatchesEnumeration ==
    \A t \in Threads :
        LET regs == Registrations(t)
        IN /\ Len(regs) <= KRB5_C_RANDSOURCE_MAX
           /\ \A k \in 1 .. Len(regs) :
                /\ regs[k].i = k - 1
                /\ (regs[k].r = YARROW_OK /\ regs[k].id # regs[k].i)
                     => /\ aborted = "assert"
                        /\ th[t].pc = "init_source"
                        /\ k = Len(regs)
                        /\ th[t].log[Len(th[t].log)] = regs[k]
           /\ InitSucceeded(t)
                => /\ Len(regs) = KRB5_C_RANDSOURCE_MAX
                   /\ \A k \in 1 .. Len(regs) :
                        regs[k].r = YARROW_OK /\ regs[k].id = k - 1
                   /\ {regs[k].id : k \in 1 .. Len(regs)} = SourceKinds

C7_Witness ==
    \E t \in Threads :
        /\ Returned(t, "init")
        /\ th[t].ret = SUCCESS
        /\ Len(Registrations(t)) = KRB5_C_RANDSOURCE_MAX

\* ------------------------------------------------ C8
\* C8: when one thread runs _plugin_prng_init again after an earlier run,
\* with no cleanup in between, the run does not abort, every identifier the
\* accumulator hands out is again the enumeration index of its kind, and a
\* run that returns 0 has registered all kinds with their indices.
C8_SecondInitKeepsIdentifiers ==
    inits >= 2 =>
        /\ aborted # "assert"
        /\ \A t \in Threads :
             LET regs == Registrations(t)
             IN /\ \A k \in 1 .. Len(regs) :
                     regs[k].r = YARROW_OK => regs[k].id = regs[k].i
                /\ InitSucceeded(t)
                     => /\ Len(regs) = KRB5_C_RANDSOURCE_MAX
                        /\ \A k \in 1 .. Len(regs) : regs[k].id = k - 1

\* The second run has returned 0.
C8_Witness ==
    /\ inits = 2
    /\ Returned("t1", "init")
    /\ th["t1"].ret = SUCCESS
    /\ \A k \in SourceKinds : registered[k] = 2

\* ------------------------------------------------ C9
\* C9: in a run of _plugin_prng_init, a failure to finish the lock's
\* initialization is returned with no accumulator operation made; after the
\* lock, the accumulator's init is the next request, and the run goes on to
\* register sources exactly when init answered ok or not seeded; after any
\* other answer it returns KRB5_CRYPTO_INTERNAL with no source registered.
C9_InitAcceptsOkAndNotSeeded ==
    \A t \in Threads :
        LET log == th[t].log
        IN (Len(log) >= 1 /\ log[1].op = "finish_init") =>
            /\ log[1].r # SUCCESS
                 => /\ th[t].pc = "idle"
                    /\ th[t].ret = log[1].r
                    /\ \A k \in 1 .. Len(log) :
                         log[k].op \in {"finish_init", "crypto_init"}
            /\ log[1].r = SUCCESS
                 => \/ Len(log) = 1 /\ th[t].pc = "init_yarrow"
                    \/ Len(log) >= 2 /\ log[2].op = "init"
            /\ (Len(log) >= 2 /\ log[2].op = "init")
                 => IF log[2].r \in {YARROW_OK, YARROW_NOT_SEEDED}
                    THEN \/ Len(log) = 2 /\ th[t].pc = "init_source"
                         \/ Len(log) >= 3 /\ log[3].op = "new_source"
                    ELSE /\ th[t].pc = "idle"
                         /\ th[t].ret = KRB5_CRYPTO_INTERNAL
                         /\ Registrations(t) = <<>>
                         /\ \A k \in 3 .. Len(log) : log[k].op = "crypto_init"

\* The accumulator's init answered "not seeded" and a source was registered.
C9_Witness ==
    \E t \in Threads :
        /\ th[t].top = "init"
        /\ Len(th[t].log) >= 3
        /\ th[t].log[2].r = YARROW_NOT_SEEDED
        /\ th[t].log[3].op = "new_source"

\* ------------------------------------------------ C10
\* C10: a call of _plugin_prng_seed that has returned made the
\* initialization check first; if the check failed it returned the check's
\* error and forwarded nothing; otherwise it forwarded exactly one input, with
\* the caller's kind, bytes and length and the estimate
\* entropy_estimate(kind, length), and returned 0 if the accumulator answered
\* ok and KRB5_CRYPTO_INTERNAL otherwise.
C10_SeedForwardsOneInput ==
    \A t \in Threads :
        LET log == th[t].log
            checks == OfOp(log, "crypto_init")
            inputs == OfOp(log, "input")
        IN /\ th[t].top = "seed"
                => /\ Len(inputs) <= 1
                   /\ Len(checks) <= 1
                   /\ (inputs # <<>> \/ th[t].pc \in {"seed_estimate", "seed_input"})
                        => (Len(checks) = 1 /\ checks[1].r = SUCCESS)
           /\ Returned(t, "seed")
                => /\ Len(checks) = 1
                   /\ checks[1].r # SUCCESS
                        => th[t].ret = checks[1].r /\ inputs = <<>>
                   /\ checks[1].r = SUCCESS
                        => /\ Len(inputs) = 1
                           /\ log[Len(log)] = inputs[1]
                           /\ inputs[1].source_id = th[t].randsource
                           /\ inputs[1].data = th[t].data
                           /\ inputs[1].size = th[t].length
                           /\ inputs[1].entropy_bits =
                                entropy_estimate(th[t].randsource, th[t].length)
                           /\ th[t].randsource \in SourceKinds
                           /\ (th[t].ret = SUCCESS) <=> (inputs[1].r = YARROW_OK)
                           /\ th[t].ret \in {SUCCESS, KRB5_CRYPTO_INTERNAL}

\* A sample from the OS device was forwarded and the accumulator refused it.
C10_Witness ==
    \E t \in Threads :
        /\ Returned(t, "seed")
        /\ th[t].ret = KRB5_CRYPTO_INTERNAL
        /\ Len(OfOp(th[t].log, "input")) = 1
        /\ th[t].randsource = KRB5_C_RANDSOURCE_OSRAND
        /\ th[t].length = YARROW_SLOW_THRESH \div 8

\* ------------------------------------------------ C11
\* C11: for every kind of the enumeration and every length, the estimator
\* returns a value, the value of the table: 4 x length for the legacy API,
\* 8 x length for the OS device, 4 x length for a trusted party, 2 for
\* timing, 0 for an external protocol; the value is a natural number.
C11_EstimateMatchesTable ==
    \A t \in Threads :
        LET k == th[t].randsource
            n == th[t].length
        IN /\ (th[t].pc = "estimate" /\ k \in SourceKinds) => aborted = NONE
           /\ th[t].pc = "estimated"
                => /\ k \in SourceKinds
                   /\ th[t].est \in Nat
                   /\ k = 0 => th[t].est = 4 * n
                   /\ k = 1 => th[t].est = 8 * n
                   /\ k = 2 => th[t].est = 4 * n
                   /\ k = 3 => th[t].est = 2
                   /\ k = 4 => th[t].est = 0

\* estimate(trusted-third-party, 1024) has returned 4096.
C11_Witness ==
    /\ th["t1"].pc = "estimated"
    /\ th["t1"].randsource = KRB5_C_RANDSOURCE_TRUSTEDPARTY
    /\ th["t1"].length = 1024
    /\ th["t1"].est = 4096

\* ------------------------------------------------ C12
\* C12: the estimator returns no value for a kind outside the enumeration:
\* the process is aborted.  A call of _plugin_prng_seed with such a kind
\* never reaches krb5int_yarrow_input, so the accumulator gets no input for
\* it, and the call does not return once its initialization check has
\* passed.
C12_UnknownKindAborts ==
    \A t \in Threads :
        (th[t].top = "seed" /\ th[t].randsource \notin SourceKinds) =>
            /\ OfOp(th[t].log, "input") = <<>>
            /\ th[t].pc # "seed_input"
            /\ th[t].pc = "idle"
                 => \E k \in 1 .. Len(th[t].log) :
                      /\ th[t].log[k].op = "crypto_init"
                      /\ th[t].log[k].r # SUCCESS
                      /\ th[t].ret = th[t].log[k].r
            /\ (th[t].pc = "seed_estimate" /\ Running)
                 => /\ ENABLED SeedInputCall(t)
                    /\ ~ENABLED (SeedInputCall(t) /\ aborted' = NONE)

\* The process was aborted in the estimator, in a call of _plugin_prng_seed
\* whose initialization check had passed.
C12_Witness ==
    /\ aborted = "estimate"
    /\ \E t \in Threads :
         /\ th[t].top = "seed"
         /\ th[t].pc = "seed_estimate"
         /\ th[t].randsource = KRB5_C_RANDSOURCE_MAX
         /\ OfOp(th[t].log, "crypto_init") # <<>>

\* ------------------------------------------------ C13
\* The accumulator is initialized, has never been seeded, and holds at least
\* the slow pool's threshold of estimated entropy.
FedUnseeded(y) ==
    y.init /\ ~y.seeded /\ y.slow >= YARROW_SLOW_THRESH

C14_FinalThenDestroy ==
    /\ \A t \in Threads :
         th[t].top = "cleanup" =>
             /\ Len(th[t].log) <= 2
             /\ \A k \in 1 .. Len(th[t].log) :
                  th[t].log[k].op = (IF k = 1 THEN "final" ELSE "destroy")
             /\ th[t].pc = "cleanup_final" => th[t].log = <<>>
             /\ th[t].pc = "cleanup_destroy"
                  => Len(th[t].log) = 1 /\ y_ctx = ZeroCtx
             /\ th[t].pc = "idle" => Len(th[t].log) = 2
    /\ yarrow_lock = "destroyed"
         => /\ y_ctx = ZeroCtx
            /\ Cardinality({t \in Threads :
                              OfOp(th[t].log, "destroy") # <<>>}) = 1
            /\ \A t \in Threads : Len(OfOp(th[t].log, "destroy")) <= 1
    /\ yarrow_lock # "destroyed"
         => \A t \in Threads : OfOp(th[t].log, "destroy") = <<>>

\* The lock was destroyed after an accumulator that had been initialized was
\* finalized.
C14_Witness ==
    /\ yarrow_lock = "destroyed"
    /\ inits >= 1
    /\ \E t \in Threads : Returned(t, "cleanup")

\* ------------------------------------------------ the reader's record
\* The event is about device d.
IsDev(e, d) == "dev" \in DOMAIN e /\ e.dev = d

\* Positions in the log of the events op about device d.
Pos(log, op, d) ==
    {k \in 1 .. Len(log) : log[k].op = op /\ IsDev(log[k], d)}

\* Positions of the requests krb5int_yarrow_input made with d's buffer.
InputPos(log, d) ==
    {k \in 1 .. Len(log) : log[k].op = "input" /\ log[k].data = d}

Devices == {DEV_RANDOM, DEV_URANDOM}

RECURSIVE SumOfReads(_)
SumOfReads(reads) ==
    IF reads = <<>> THEN 0 ELSE Head(reads).r + SumOfReads(Tail(reads))

\* ------------------------------------------------ C15
\* C15: with strong set, /dev/random is the first device opened, and what is
\* done with it - the hand-over of its buffer and the accumulator's input -
\* is over before /dev/urandom is opened; /dev/urandom is opened in every
\* call; without strong, /dev/random is never opened.
C15_DeviceOrder ==
    \A t \in Threads :
        th[t].top = "os_seed" =>
            LET log == th[t].log
                opens == OfOp(log, "open")
            IN /\ Len(opens) <= (IF th[t].strong THEN 2 ELSE 1)
               /\ (th[t].strong /\ Len(opens) >= 1)
                    => opens[1].dev = DEV_RANDOM
               /\ (th[t].strong /\ Len(opens) = 2)
                    => opens[2].dev = DEV_URANDOM
               /\ ~th[t].strong
                    => Pos(log, "open", DEV_RANDOM) = {}
               /\ \A k \in Pos(log, "open", DEV_URANDOM) :
                    th[t].strong =>
                      /\ \E j \in Pos(log, "returned", DEV_RANDOM) : j < k
                      /\ \A j \in Pos(log, "add_entropy", DEV_RANDOM)
                                    \cup InputPos(log, DEV_RANDOM) : j < k
               /\ Returned(t, "os_seed")
                    => Pos(log, "open", DEV_URANDOM) # {}

\* A strong call returned after /dev/random's buffer was accepted and
\* /dev/urandom was opened.
C15_Witness ==
    /\ Returned("t1", "os_seed")
    /\ th["t1"].strong
    /\ \E k \in InputPos(th["t1"].log, DEV_RANDOM) :
         th["t1"].log[k].r = YARROW_OK
    /\ Pos(th["t1"].log, "open", DEV_URANDOM) # {}

\* ------------------------------------------------ C16
\* Device d contributed: its buffer was read completely and handed over, and
\* the ingestion was accepted.
Contributed(log, d) ==
    /\ Pos(log, "add_entropy", d) # {}
    /\ \E k \in InputPos(log, d) : log[k].r = YARROW_OK

\* C16: _plugin_prng_os_seed always returns 0, and the success it reports is
\* 1 exactly when one of the devices contributed.
C16_SuccessIffContributed ==
    \A t \in Threads :
        (th[t].top = "os_seed" /\ th[t].pc = "idle") =>
            /\ th[t].ret = SUCCESS
            /\ th[t].oursuccess \in {0, 1}
            /\ th[t].oursuccess = 1
                 <=> \E d \in Devices : Contributed(th[t].log, d)

\* A call reports success when /dev/random was unavailable and /dev/urandom
\* contributed.
C16_Witness ==
    /\ Returned("t1", "os_seed")
    /\ th["t1"].oursuccess = 1
    /\ th["t1"].strong
    /\ ~Contributed(th["t1"].log, DEV_RANDOM)
    /\ Contributed(th["t1"].log, DEV_URANDOM)

\* ------------------------------------------------ C17
\* C17: when fstat fails or says the path is a regular file, the descriptor
\* is closed and the reader returns 0 at once: nothing is read from the
\* device and nothing of it is handed over.
C17_RegularFileNeverRead ==
    \A t \in Threads :
        th[t].top = "os_seed" =>
            LET log == th[t].log
            IN \A k \in 1 .. Len(log) :
                 (log[k].op = "fstat" /\ log[k].r \in {"fail", "regular"}) =>
                     LET d == log[k].dev
                     IN /\ Len(log) >= k + 2
                        /\ log[k + 1].op = "close" /\ log[k + 1].dev = d
                        /\ log[k + 2].op = "returned" /\ log[k + 2].dev = d
                        /\ log[k + 2].r = FALSE
                        /\ Pos(log, "read", d) = {}
                        /\ Pos(log, "add_entropy", d) = {}
                        /\ InputPos(log, d) = {}

\* /dev/urandom was a regular file and the call returned.
C17_Witness ==
    /\ Returned("t1", "os_seed")
    /\ \E k \in Pos(th["t1"].log, "fstat", DEV_URANDOM) :
         th["t1"].log[k].r = "regular"
    /\ th["t1"].oursuccess = 0

\* ------------------------------------------------ C18
\* C18: in the _WIN32 build _plugin_prng_os_seed returns 0, reports failure
\* through a success pointer that is not null, and does nothing else: no
\* device, no accumulator request, no change of the plugin's state.
C18_Win32NoDevice ==
    /\ [](\A t \in Threads :
            Returned(t, "os_seed") =>
                /\ th[t].ret = SUCCESS
                /\ th[t].log = <<>>
                /\ th[t].oursuccess # 1
                /\ th[t].success_ptr => th[t].oursuccess = 0)
    /\ [][(\E t \in Threads : th'[t] # th[t] /\ th'[t].top = "os_seed")
            => UNCHANGED <<y_ctx, yarrow_lock, lock_owner, once, aborted,
                           finalized, inits, registered>>]_vars

\* The call returned with failure reported, on an initialized accumulator.
C18_Witness ==
    /\ Returned("t1", "os_seed")
    /\ th["t1"].success_ptr
    /\ th["t1"].oursuccess = 0
    /\ y_ctx.init

\* ------------------------------------------------ C19
\* C19: a device's buffer is handed over only after reads of at least one
\* byte each have filled all YARROW_SLOW_THRESH/8 bytes of it; it is handed
\* over as KRB5_C_RANDSOURCE_OSRAND with the buffer's full length; a read
\* that returns 0 or an error ends the device's turn with nothing handed
\* over.
C19_FullBufferOnly ==
    \A t \in Threads :
        th[t].top = "os_seed" =>
            LET log == th[t].log
            IN /\ \A k \in 1 .. Len(log) :
                    log[k].op = "add_entropy" =>
                        LET d == log[k].dev
                            reads == SelectSeq(SubSeq(log, 1, k - 1),
                                        LAMBDA e : e.op = "read" /\ IsDev(e, d))
                        IN /\ Pos(log, "read", d) \subseteq 1 .. k - 1
                           /\ \A j \in 1 .. Len(reads) : reads[j].r >= 1
                           /\ SumOfReads(reads) = YARROW_SLOW_THRESH \div 8
                           /\ log[k].randsource = KRB5_C_RANDSOURCE_OSRAND
                           /\ log[k].length = YARROW_SLOW_THRESH \div 8
                           /\ \A j \in InputPos(log, d) :
                                /\ j > k
                                /\ log[j].source_id = KRB5_C_RANDSOURCE_OSRAND
                                /\ log[j].size = YARROW_SLOW_THRESH \div 8
                                /\ log[j].entropy_bits = YARROW_SLOW_THRESH
               /\ \A d \in Devices :
                    InputPos(log, d) # {} => Pos(log, "add_entropy", d) # {}
               /\ \A k \in 1 .. Len(log) :
                    (log[k].op = "read" /\ log[k].r <= 0) =>
                        LET d == log[k].dev
                        IN /\ Len(log) >= k + 2
                           /\ log[k + 1].op = "close" /\ log[k + 1].dev = d
                           /\ log[k + 2].op = "returned" /\ log[k + 2].dev = d
                           /\ log[k + 2].r = FALSE
                           /\ Pos(log, "add_entropy", d) = {}
                           /\ InputPos(log, d) = {}

\* /dev/urandom's buffer was handed over after three reads.
C19_Witness ==
    /\ Pos(th["t1"].log, "add_entropy", DEV_URANDOM) # {}
    /\ Cardinality(Pos(th["t1"].log, "read", DEV_URANDOM)) = 3

\* ------------------------------------------------ C20
\* C20: every descriptor the reader opens is closed once before the reader
\* returns, and before the buffer is handed over when there is one; no
\* descriptor is open when _plugin_prng_os_seed returns.
C20_DescriptorsClosed ==
    \A t \in Threads :
        th[t].top = "os_seed" =>
            LET log == th[t].log
            IN /\ \A d \in Devices :
                    LET opened == {k \in Pos(log, "open", d) : log[k].r # -1}
                        closed == Pos(log, "close", d)
                    IN /\ Cardinality(closed) <= Cardinality(opened)
                       /\ Cardinality(closed) <= 1
                       /\ \A c \in closed : \E o \in opened : o < c
                       /\ \A k \in Pos(log, "returned", d)
                                     \cup Pos(log, "add_entropy", d) :
                            \A o \in opened : \E c \in closed : o < c /\ c < k
               /\ th[t].pc \notin {"dev_fstat", "dev_read"} => th[t].fd = -1
               /\ th[t].pc \in {"dev_fstat", "dev_read"} => th[t].fd # -1

\* Both devices were opened, both were closed, and the call returned.
C20_Witness ==
    /\ Returned("t1", "os_seed")
    /\ \A d \in Devices :
         /\ \E k \in Pos(th["t1"].log, "open", d) : th["t1"].log[k].r # -1
         /\ Pos(th["t1"].log, "close", d) # {}
    /\ Pos(th["t1"].log, "add_entropy", DEV_URANDOM) # {}

====
